---- MODULE Spec2Model ----
(***************************************************************************)
(* Model of the collaborative spreadsheet client:                          *)
(*   - GoogleSheetsGrid.tsx      the grid: selection, editing, clipboard,  *)
(*                               asynchronous cell persistence             *)
(*   - RealTimeCollaboration.tsx the collaboration channel: inbound        *)
(*                               cell updates, cell and cursor broadcast   *)
(*   - use-keyboard-shortcuts.ts the keydown listener of the shortcut hook *)
(*                                                                         *)
(* Twelve specifications share the variables:                              *)
(*   Spec        the grid: editing, clearing and asynchronous persistence  *)
(*   SpecStart   the grid: entering Editing by F2 and by double click      *)
(*   SpecKeys    key events in both modes, with the shortcuts hook         *)
(*   SpecClear   the grid: ranges and Delete / Backspace                   *)
(*   SpecClip    the grid: ranges, copy, cut and paste                     *)
(*   SpecNav     the grid: navigation keys, pointer selection, select-all  *)
(*   SpecInbound the grid in use while peer events arrive                  *)
(*   SpecActive  the grid: the active cell under keys and pointer-downs     *)
(*   SpecFrame   the grid: a Range under keys, editing, Delete and copy     *)
(*   SpecCollab  two clients exchanging cell updates through a relay       *)
(*   SpecCursor  the cursor broadcast effect and its debounce timers       *)
(*   SpecPresence the presence map, the connection status and the join     *)
(*               announcement of the message effect                        *)
(*                                                                         *)
(* Text is a sequence of one-character strings, so that startsWith and the *)
(* numeric conversion are computed on the characters.  An optional value   *)
(* (T | null) is a sequence of length 0 (null) or 1.                       *)
(***************************************************************************)
EXTENDS Integers, Sequences, FiniteSets, TLC

VARIABLES
  \* ---- GoogleSheetsGrid ----
  cells,          \* the cells prop: position -> [value, formula, dataType]
  stored,         \* the cells the sheet holds behind PUT /api/sheets/:id/cells
  invalidated,    \* the cells query was invalidated, its refetch is not delivered yet
  startTimers,    \* pending setTimeout(startEditing, 0) of double clicks, each with
                  \* the selectedCell and cells of the render that set it
  inflight,       \* saveCellMutation requests issued and not yet completed
  nMutations,     \* number of saveCellMutation.mutate calls so far
  lastIssued,     \* position -> value of the latest saveCellMutation.mutate call for it
  selectedCell,   \* prop selectedCell: None or Some([row, column])
  isEditing,      \* prop isEditing
  editingValue,   \* state editingValue (the edit buffer)
  selection,      \* state selection: None or Some([startRow,startCol,endRow,endCol])
  isSelecting,    \* state isSelecting
  dragStart,      \* state dragStart: None or Some([row, col])
  clipboard,      \* state clipboard: sequence of Cell
  handlerEnv,     \* what the registered keydown listener closed over
  \* ---- RealTimeCollaboration ----
  store,          \* per client: the grid state store the channel applies to
  inbox,          \* per client: inbound cell:update events not yet handled
  emitted,        \* per client: cell:update events given to socket.emit
  callbacks,      \* per client: the updates passed to onCellUpdate
  handled,        \* per client: number of cell:update events handleCellUpdate ran for
  edits,          \* number of local cell writes the clients have made
  peerReady,      \* client 2 has its socket and user, and its handlers are registered
  \* ---- cursor broadcast effect ----
  currentCell,    \* prop currentCell
  cursorEditing,  \* prop isEditing of the collaboration component
  timers,         \* pending setTimeout callbacks of the debounce instances
  now,            \* milliseconds elapsed
  cursorEmitted,  \* cursor:move events given to socket.emit
  \* ---- presence and connection of the local user's channel ----
  collaborators,    \* state collaborators: userId -> CollaboratorCursor
  connectionStatus, \* state connectionStatus
  isConnected,      \* state isConnected
  socketPresent,    \* the socket of useWebSocket is not null
  user,             \* the user of useAuth: None or Some(user.id)
  listeners,        \* handler sets registered on the socket by the message effect
  joinEmitted,      \* number of join:spreadsheet announcements given to socket.emit
  \* ---- useKeyboardShortcuts ----
  invoked           \* the callbacks the hook's keydown listener has invoked, in order

gridVars == <<cells, stored, invalidated, startTimers, inflight, nMutations, lastIssued, selectedCell, isEditing, editingValue,
              selection, isSelecting, dragStart, clipboard, handlerEnv>>
collabVars == <<store, inbox, emitted, callbacks, handled, edits, peerReady>>
cursorVars == <<currentCell, cursorEditing, timers, now, cursorEmitted>>
presenceVars == <<collaborators, connectionStatus, isConnected, socketPresent, user,
                  listeners, joinEmitted>>
shortcutVars == <<invoked>>
vars == <<gridVars, collabVars, cursorVars, presenceVars, shortcutVars>>

----------------------------------------------------------------------------
\* Program constants

ROWS == 1000
COLS == 26
DEBOUNCE_WAIT == 100

\* Bounds of the model

\* rows 1..Margin and the last row, columns 1..Margin and the last column
Margin == 2
\* largest number of cells a copied or cleared range may hold
MaxRange == 2
\* total number of saveCellMutation.mutate calls in a behaviour of Spec
MaxEdits == 2
\* total number of saveCellMutation.mutate calls in a behaviour of SpecClip
MaxClipWrites == 2
\* cell:update events the clients emit, events waiting in a client's inbox,
\* events a client handles
MaxEmits == 2
MaxInbox == 2
MaxHandled == 2
\* runs of the cursor effect, granularity and horizon of the clock (ms)
MaxTimers == 3
TickMs == 50
MaxTime == 200
\* double clicks whose timer has not run yet
MaxStartTimers == 1
\* callbacks recorded from the shortcuts hook
MaxInvoked == 2
\* join announcements of the message effect
MaxJoins == 2

None == <<>>
Some(x) == <<x>>
Null == <<"null">>
Undefined == <<"undefined">>

Min(a, b) == IF a <= b THEN a ELSE b
Max(a, b) == IF a >= b THEN a ELSE b

\* The rows and columns the active cell is followed over: the first ones,
\* the last one, and one position beyond either edge of the grid
WindowRows == (0..Margin) \cup {ROWS, ROWS + 1}
WindowCols == (0..Margin) \cup {COLS, COLS + 1}
InWindow(row, col) == row \in WindowRows /\ col \in WindowCols

\* The texts a user types into the edit buffer
EditValues == { <<"4", "2">>, <<"=", "A", "1">>, <<"h", "i">> }
EmptyText == <<>>

----------------------------------------------------------------------------
\* Text functions

Digits == {"0", "1", "2", "3", "4", "5", "6", "7", "8", "9"}

\* String.prototype.startsWith('=')
startsWithEq(value) == Len(value) > 0 /\ value[1] = "="

RECURSIVE TrimLeft(_)
TrimLeft(s) == IF s # <<>> /\ Head(s) = " " THEN TrimLeft(Tail(s)) ELSE s

RECURSIVE TrimRight(_)
TrimRight(s) ==
  IF s # <<>> /\ s[Len(s)] = " " THEN TrimRight(SubSeq(s, 1, Len(s) - 1)) ELSE s

\* isNaN(Number(value)) for texts over digits, letters other than e/x/o/b/I,
\* '=', '.', '+', '-' and space: Number trims white space, converts the empty
\* text to 0 and a signed decimal literal to its value, anything else to NaN.
NumberIsNaN(value) ==
  LET t == TrimRight(TrimLeft(value))
      u == IF t # <<>> /\ t[1] \in {"+", "-"} THEN Tail(t) ELSE t
      dots == {i \in 1..Len(u) : u[i] = "."}
      digs == {i \in 1..Len(u) : u[i] \in Digits}
  IN  IF t = <<>> THEN FALSE
      ELSE ~(/\ Cardinality(digs) >= 1
             /\ Cardinality(dots) <= 1
             /\ Cardinality(digs) + Cardinality(dots) = Len(u))

----------------------------------------------------------------------------
\* Grid: pure parts of the handlers

InBounds(row, col) == row >= 1 /\ row <= ROWS /\ col >= 1 /\ col <= COLS

\* mutationFn sending the raw value as the formula of every write
mutationFn_FormulaAlways(row, column, value) ==
  [row |-> row, column |-> column, value |-> value,
   dataType |-> IF startsWithEq(value) THEN "formula"
                ELSE IF NumberIsNaN(value) THEN "text" ELSE "number",
   formula |-> value]

\* The body of the PUT request built by saveCellMutation.mutationFn
mutationFn(row, column, value) ==
  [row |-> row, column |-> column, value |-> value,
   dataType |-> IF startsWithEq(value) THEN "formula"
                ELSE IF NumberIsNaN(value) THEN "text" ELSE "number",
   formula |-> IF startsWithEq(value) THEN value ELSE Null]

\* The persistence interface writeCell: the sheet stores the request's body
\* as the cell at (row, column)
writeCell(cs, req) ==
  [p \in (DOMAIN cs) \cup {<<req.row, req.column>>} |->
     IF p = <<req.row, req.column>>
     THEN [value |-> req.value, formula |-> req.formula, dataType |-> req.dataType]
     ELSE cs[p]]

RECURSIVE writeAll(_, _)
writeAll(cs, reqs) ==
  IF reqs = <<>> THEN cs ELSE writeAll(writeCell(cs, Head(reqs)), Tail(reqs))

\* getCellValue over a cell map: cell?.value || ''
getCellValue(cs, row, col) ==
  IF <<row, col>> \in DOMAIN cs THEN cs[<<row, col>>].value ELSE EmptyText

\* One clipboard entry as copySelection pushes it
clipboardCell(cs, row, col) ==
  [row |-> row, column |-> col,
   value |-> getCellValue(cs, row, col),
   formula |-> IF <<row, col>> \in DOMAIN cs THEN cs[<<row, col>>].formula ELSE Undefined,
   dataType |-> IF <<row, col>> \in DOMAIN cs THEN cs[<<row, col>>].dataType ELSE "undefined"]

RangeWidth(sel) == sel.endCol - sel.startCol + 1
RangeSize(sel) == (sel.endRow - sel.startRow + 1) * RangeWidth(sel)
\* the k-th cell of a range in the order of the nested row/column loops
RangeCell(sel, k) ==
  <<sel.startRow + ((k - 1) \div RangeWidth(sel)),
    sel.startCol + ((k - 1) % RangeWidth(sel))>>

\* The cells copySelection captures (cs is the cell map it reads)
copySelection(cs, sel, active) ==
  IF sel # None
  THEN [k \in 1..RangeSize(sel[1]) |->
          clipboardCell(cs, RangeCell(sel[1], k)[1], RangeCell(sel[1], k)[2])]
  ELSE IF active # None
  THEN << clipboardCell(cs, active[1].row, active[1].column) >>
  ELSE <<>>

\* Target of a clipboard entry when pasting at the anchor
pasteTarget(clip, anchor, cell) ==
  <<anchor.row + (cell.row - clip[1].row), anchor.column + (cell.column - clip[1].column)>>

pasteBoundsOk(targetRow, targetCol) == targetRow <= ROWS /\ targetCol <= COLS

\* The mutate calls pasteSelection makes, in order
pasteSelection(clip, anchor) ==
  LET ok(cell) == pasteBoundsOk(pasteTarget(clip, anchor, cell)[1],
                                pasteTarget(clip, anchor, cell)[2])
      kept == SelectSeq(clip, ok)
  IN  [k \in 1..Len(kept) |->
         mutationFn(pasteTarget(clip, anchor, kept[k])[1],
                    pasteTarget(clip, anchor, kept[k])[2],
                    kept[k].value)]

\* The mutate calls clearSelection makes, in order
\* clearSelection that clears the active cell only
clearSelection_ActiveOnly(sel, active) ==
  IF active # None
  THEN << mutationFn(active[1].row, active[1].column, EmptyText) >>
  ELSE <<>>

clearSelection(sel, active) ==
  IF sel # None
  THEN [k \in 1..RangeSize(sel[1]) |->
          mutationFn(RangeCell(sel[1], k)[1], RangeCell(sel[1], k)[2], EmptyText)]
  ELSE IF active # None
  THEN << mutationFn(active[1].row, active[1].column, EmptyText) >>
  ELSE <<>>

\* The mutate call finishEditing makes
finishEditing(active, buffer) ==
  IF active # None
  THEN << mutationFn(active[1].row, active[1].column, buffer) >>
  ELSE <<>>

\* navTarget wrapping around at the edges of the grid
navTarget_Wrap(key, shift, row, column) ==
  LET up == IF row > 1 THEN <<row - 1, column>> ELSE <<ROWS, column>>
      down == IF row < ROWS THEN <<row + 1, column>> ELSE <<1, column>>
      left == IF column > 1 THEN <<row, column - 1>> ELSE <<row, COLS>>
      right == IF column < COLS THEN <<row, column + 1>> ELSE <<row, 1>>
  IN  CASE key = "ArrowUp"    -> up
        [] key = "ArrowDown"  -> down
        [] key = "ArrowLeft"  -> left
        [] key = "ArrowRight" -> right
        [] key = "Tab"        -> IF shift THEN left ELSE right
        [] key = "Enter"      -> IF shift THEN up ELSE down

\* navTarget moving by one without looking at the edges of the grid
navTarget_NoClamp(key, shift, row, column) ==
  CASE key = "ArrowUp"    -> <<row - 1, column>>
    [] key = "ArrowDown"  -> <<row + 1, column>>
    [] key = "ArrowLeft"  -> <<row, column - 1>>
    [] key = "ArrowRight" -> <<row, column + 1>>
    [] key = "Tab"        -> IF shift THEN <<row, column - 1>> ELSE <<row, column + 1>>
    [] key = "Enter"      -> IF shift THEN <<row - 1, column>> ELSE <<row + 1, column>>

\* The cell a navigation key selects in Navigating mode; the current cell
\* when the key does nothing at the edge
navTarget(key, shift, row, column) ==
  CASE key = "ArrowUp"    -> IF row > 1 THEN <<row - 1, column>> ELSE <<row, column>>
    [] key = "ArrowDown"  -> IF row < ROWS THEN <<row + 1, column>> ELSE <<row, column>>
    [] key = "ArrowLeft"  -> IF column > 1 THEN <<row, column - 1>> ELSE <<row, column>>
    [] key = "ArrowRight" -> IF column < COLS THEN <<row, column + 1>> ELSE <<row, column>>
    [] key = "Tab" ->
         IF shift
         THEN (IF column > 1 THEN <<row, column - 1>> ELSE <<row, column>>)
         ELSE (IF column < COLS THEN <<row, column + 1>> ELSE <<row, column>>)
    [] key = "Enter" ->
         IF shift
         THEN (IF row > 1 THEN <<row - 1, column>> ELSE <<row, column>>)
         ELSE (IF row < ROWS THEN <<row + 1, column>> ELSE <<row, column>>)

NavKeys == {"ArrowUp", "ArrowDown", "ArrowLeft", "ArrowRight", "Tab", "Enter"}

\* The range spanned by two cells (Math.min / Math.max of the corners)
\* spanOf keeping the raw coordinates in the order given
spanOf_Raw(r1, c1, r2, c2) ==
  [startRow |-> r1, startCol |-> c1, endRow |-> r2, endCol |-> c2]

spanOf(r1, c1, r2, c2) ==
  [startRow |-> Min(r1, r2), startCol |-> Min(c1, c2),
   endRow |-> Max(r1, r2), endCol |-> Max(c1, c2)]

fullGrid == [startRow |-> 1, startCol |-> 1, endRow |-> ROWS, endCol |-> COLS]

----------------------------------------------------------------------------
\* Grid: state changes shared by the handlers

\* The record of the mutate calls: the value of the latest call per cell
RECURSIVE issueAll(_, _)
issueAll(last, reqs) ==
  IF reqs = <<>> THEN last
  ELSE issueAll([p \in (DOMAIN last) \cup {<<Head(reqs).row, Head(reqs).column>>} |->
                   IF p = <<Head(reqs).row, Head(reqs).column>>
                   THEN Head(reqs).value ELSE last[p]],
                Tail(reqs))

\* saveCellMutation.mutate called once per request of reqs
Mutate(reqs) ==
  /\ inflight' = inflight \o reqs
  /\ nMutations' = nMutations + Len(reqs)
  /\ lastIssued' = issueAll(lastIssued, reqs)

\* The keydown effect has the dependencies [selectedCell, isEditing,
\* selection]: when one of them changes the listener is registered again and
\* closes over the state of that render; otherwise the listener registered
\* earlier stays, with the editingValue, clipboard and cells it closed over.
KeydownEffect(depsChanged) ==
  handlerEnv' = IF depsChanged
                THEN [editingValue |-> editingValue', clipboard |-> clipboard',
                      cells |-> cells']
                ELSE handlerEnv

\* onCellSelect of the page: the selected cell becomes (row, col)
onCellSelect(row, col) == selectedCell' = Some([row |-> row, column |-> col])

Row == selectedCell[1].row
Column == selectedCell[1].column
Navigating == selectedCell # None /\ ~isEditing
Editing == selectedCell # None /\ isEditing
SmallRange == IF selection = None THEN TRUE ELSE RangeSize(selection[1]) <= MaxRange

----------------------------------------------------------------------------
\* Grid: handleKeyDown in Navigating mode

\* A navigation key that also drops the Range
KeyNavigate_DropsRange(key, shift) ==
  /\ Navigating
  /\ selection' = None
  /\ UNCHANGED <<cells, stored, invalidated, startTimers, inflight, nMutations, lastIssued, isEditing, editingValue,
                 isSelecting, dragStart, clipboard>>
  /\ LET t == navTarget(key, shift, Row, Column)
     IN  /\ InWindow(t[1], t[2])
         /\ IF t # <<Row, Column>>
            THEN onCellSelect(t[1], t[2]) /\ KeydownEffect(TRUE)
            ELSE UNCHANGED selectedCell /\ KeydownEffect(selection # None)

KeyNavigate(key, shift) ==
  /\ Navigating
  /\ UNCHANGED <<cells, stored, invalidated, startTimers, inflight, nMutations, lastIssued, isEditing, editingValue, selection,
                 isSelecting, dragStart, clipboard>>
  /\ LET t == navTarget(key, shift, Row, Column)
     IN  /\ InWindow(t[1], t[2])
         /\ IF t # <<Row, Column>>
            THEN onCellSelect(t[1], t[2]) /\ KeydownEffect(TRUE)
            ELSE UNCHANGED <<selectedCell, handlerEnv>>

\* F2: startEditing
KeyF2 ==
  /\ Navigating
  /\ editingValue' = getCellValue(handlerEnv.cells, Row, Column)
  /\ isEditing' = TRUE
  /\ UNCHANGED <<cells, stored, invalidated, startTimers, inflight, nMutations, lastIssued, selectedCell, selection,
                 isSelecting, dragStart, clipboard>>
  /\ KeydownEffect(TRUE)

\* Delete / Backspace
KeyDelete ==
  /\ Navigating
  /\ SmallRange
  /\ Mutate(IF selection # None
            THEN clearSelection(selection, selectedCell)
            ELSE << mutationFn(Row, Column, EmptyText) >>)
  /\ UNCHANGED <<cells, stored, invalidated, startTimers, selectedCell, isEditing, editingValue, selection,
                 isSelecting, dragStart, clipboard>>
  /\ KeydownEffect(FALSE)

\* Ctrl/Cmd+C: copySelection
KeyCopy ==
  /\ Navigating
  /\ SmallRange
  /\ clipboard' = copySelection(handlerEnv.cells, selection, selectedCell)
  /\ UNCHANGED <<cells, stored, invalidated, startTimers, inflight, nMutations, lastIssued, selectedCell, isEditing,
                 editingValue, selection, isSelecting, dragStart>>
  /\ KeydownEffect(FALSE)

\* Ctrl/Cmd+V: pasteSelection
KeyPaste ==
  /\ Navigating
  /\ IF Len(handlerEnv.clipboard) = 0
     THEN UNCHANGED <<inflight, nMutations, lastIssued>>
     ELSE Mutate(pasteSelection(handlerEnv.clipboard, selectedCell[1]))
  /\ UNCHANGED <<cells, stored, invalidated, startTimers, selectedCell, isEditing, editingValue, selection,
                 isSelecting, dragStart, clipboard>>
  /\ KeydownEffect(FALSE)

\* Ctrl/Cmd+X: cutSelection = copySelection then clearSelection
KeyCut ==
  /\ Navigating
  /\ SmallRange
  /\ clipboard' = copySelection(handlerEnv.cells, selection, selectedCell)
  /\ Mutate(clearSelection(selection, selectedCell))
  /\ UNCHANGED <<cells, stored, invalidated, startTimers, selectedCell, isEditing, editingValue, selection,
                 isSelecting, dragStart>>
  /\ KeydownEffect(FALSE)

\* Ctrl/Cmd+A: selectAll
KeySelectAll ==
  /\ Navigating
  /\ selection' = Some(fullGrid)
  /\ UNCHANGED <<cells, stored, invalidated, startTimers, inflight, nMutations, lastIssued, selectedCell, isEditing,
                 editingValue, isSelecting, dragStart, clipboard>>
  /\ KeydownEffect(TRUE)

----------------------------------------------------------------------------
\* Grid: handleKeyDown in Editing mode, and the edit input

\* onChange of the edit input
TypeText(v) ==
  /\ Editing
  /\ editingValue' = v
  /\ UNCHANGED <<cells, stored, invalidated, startTimers, inflight, nMutations, lastIssued, selectedCell, isEditing, selection,
                 isSelecting, dragStart, clipboard>>
  /\ KeydownEffect(FALSE)

\* Enter: finishEditing, then one row down
KeyEnterEditing ==
  /\ Editing
  /\ Mutate(finishEditing(selectedCell, handlerEnv.editingValue))
  /\ isEditing' = FALSE
  /\ editingValue' = EmptyText
  /\ IF Row < ROWS
     THEN InWindow(Row + 1, Column) /\ onCellSelect(Row + 1, Column)
     ELSE UNCHANGED selectedCell
  /\ UNCHANGED <<cells, stored, invalidated, startTimers, selection, isSelecting, dragStart, clipboard>>
  /\ KeydownEffect(TRUE)

\* Escape: cancelEditing
KeyEscapeEditing ==
  /\ Editing
  /\ isEditing' = FALSE
  /\ editingValue' = EmptyText
  /\ UNCHANGED <<cells, stored, invalidated, startTimers, inflight, nMutations, lastIssued, selectedCell, selection,
                 isSelecting, dragStart, clipboard>>
  /\ KeydownEffect(TRUE)

\* Tab / Shift+Tab: finishEditing, then one column right / left
KeyTabEditing(shift) ==
  /\ Editing
  /\ Mutate(finishEditing(selectedCell, handlerEnv.editingValue))
  /\ isEditing' = FALSE
  /\ editingValue' = EmptyText
  /\ LET t == navTarget("Tab", shift, Row, Column)
     IN  IF t # <<Row, Column>>
         THEN InWindow(t[1], t[2]) /\ onCellSelect(t[1], t[2])
         ELSE UNCHANGED selectedCell
  /\ UNCHANGED <<cells, stored, invalidated, startTimers, selection, isSelecting, dragStart, clipboard>>
  /\ KeydownEffect(TRUE)

----------------------------------------------------------------------------
\* Grid: pointer handlers (created on every render, so they read the
\* current state)

\* handleMouseDown whose commit goes to the cell under the pointer
handleMouseDown_CommitToTarget(row, col, shift) ==
  /\ IF isEditing /\ selectedCell # None
     THEN /\ Mutate(finishEditing(Some([row |-> row, column |-> col]), editingValue))
          /\ isEditing' = FALSE
          /\ editingValue' = EmptyText
     ELSE UNCHANGED <<inflight, nMutations, lastIssued, isEditing, editingValue>>
  /\ onCellSelect(row, col)
  /\ IF shift /\ selectedCell # None
     THEN /\ selection' = Some(spanOf(Row, Column, row, col))
          /\ UNCHANGED <<isSelecting, dragStart>>
     ELSE /\ selection' = None
          /\ isSelecting' = TRUE
          /\ dragStart' = Some([row |-> row, col |-> col])
  /\ UNCHANGED <<cells, stored, invalidated, startTimers, clipboard>>
  /\ KeydownEffect(TRUE)

handleMouseDown(row, col, shift) ==
  /\ IF isEditing /\ selectedCell # None
     THEN /\ Mutate(finishEditing(selectedCell, editingValue))
          /\ isEditing' = FALSE
          /\ editingValue' = EmptyText
     ELSE UNCHANGED <<inflight, nMutations, lastIssued, isEditing, editingValue>>
  /\ onCellSelect(row, col)
  /\ IF shift /\ selectedCell # None
     THEN /\ selection' = Some(spanOf(Row, Column, row, col))
          /\ UNCHANGED <<isSelecting, dragStart>>
     ELSE /\ selection' = None
          /\ isSelecting' = TRUE
          /\ dragStart' = Some([row |-> row, col |-> col])
  /\ UNCHANGED <<cells, stored, invalidated, startTimers, clipboard>>
  /\ KeydownEffect(TRUE)

\* Double click: onCellSelect(row, col), and a timer is set for the
\* startEditing of the render that handled the event, which closes over the
\* selectedCell and the cell map of that render
handleDoubleClick(row, col) ==
  /\ Len(startTimers) < MaxStartTimers
  /\ onCellSelect(row, col)
  /\ startTimers' = Append(startTimers, [selectedCell |-> selectedCell, cells |-> cells])
  /\ UNCHANGED <<cells, stored, invalidated, inflight, nMutations, lastIssued, isEditing,
                 editingValue, selection, isSelecting, dragStart, clipboard>>
  /\ KeydownEffect(TRUE)

\* The timer of a double click runs: startEditing returns at once when the
\* selectedCell it closed over is null; otherwise the buffer gets the value of
\* that cell in the cell map it closed over and onEditingChange(true) is called
StartEditingTimer ==
  /\ startTimers # <<>>
  /\ startTimers' = Tail(startTimers)
  /\ LET render == Head(startTimers)
     IN  IF render.selectedCell # None
         THEN /\ editingValue' = getCellValue(render.cells, render.selectedCell[1].row,
                                              render.selectedCell[1].column)
              /\ isEditing' = TRUE
         ELSE UNCHANGED <<editingValue, isEditing>>
  /\ UNCHANGED <<cells, stored, invalidated, inflight, nMutations, lastIssued, selectedCell,
                 selection, isSelecting, dragStart, clipboard>>
  /\ KeydownEffect(isEditing' # isEditing)

\* handleMouseEnter that recomputes the Range whether or not a drag is in
\* progress, from the drag anchor or else from the active cell
handleMouseEnter_Always(row, col) ==
  /\ UNCHANGED <<cells, stored, invalidated, startTimers, inflight, nMutations, lastIssued, selectedCell, isEditing,
                 editingValue, isSelecting, dragStart, clipboard>>
  /\ IF dragStart # None \/ selectedCell # None
     THEN /\ selection' = Some(IF dragStart # None
                               THEN spanOf(dragStart[1].row, dragStart[1].col, row, col)
                               ELSE spanOf(Row, Column, row, col))
          /\ KeydownEffect(TRUE)
     ELSE UNCHANGED <<selection, handlerEnv>>

handleMouseEnter(row, col) ==
  /\ UNCHANGED <<cells, stored, invalidated, startTimers, inflight, nMutations, lastIssued, selectedCell, isEditing,
                 editingValue, isSelecting, dragStart, clipboard>>
  /\ IF isSelecting /\ dragStart # None
     THEN /\ selection' = Some(spanOf(dragStart[1].row, dragStart[1].col, row, col))
          /\ KeydownEffect(TRUE)
     ELSE UNCHANGED <<selection, handlerEnv>>

handleMouseUp ==
  /\ isSelecting' = FALSE
  /\ dragStart' = None
  /\ UNCHANGED <<cells, stored, invalidated, startTimers, inflight, nMutations, lastIssued, selectedCell, isEditing,
                 editingValue, selection, clipboard>>
  /\ KeydownEffect(FALSE)

----------------------------------------------------------------------------
\* Grid: completion of a persistence request

\* The PUT is answered with response.ok: the sheet holds the cell and
\* onSuccess invalidates the cells query; the cells prop is not changed yet
SaveSuccess(i) ==
  /\ i \in 1..Len(inflight)
  /\ stored' = writeCell(stored, inflight[i])
  /\ invalidated' = TRUE
  /\ inflight' = SubSeq(inflight, 1, i - 1) \o SubSeq(inflight, i + 1, Len(inflight))
  /\ UNCHANGED <<cells, startTimers, nMutations, lastIssued, selectedCell, isEditing, editingValue, selection,
                 isSelecting, dragStart, clipboard>>
  /\ KeydownEffect(FALSE)

\* The refetch of the invalidated cells query is delivered: the page renders
\* the grid with the cells the sheet holds
Refetch ==
  /\ invalidated
  /\ cells' = stored
  /\ invalidated' = FALSE
  /\ UNCHANGED <<stored, startTimers, inflight, nMutations, lastIssued, selectedCell, isEditing,
                 editingValue, selection, isSelecting, dragStart, clipboard>>
  /\ KeydownEffect(FALSE)

\* onError that also leaves Editing mode and empties the edit buffer
SaveError_Rollback(i) ==
  /\ i \in 1..Len(inflight)
  /\ inflight' = SubSeq(inflight, 1, i - 1) \o SubSeq(inflight, i + 1, Len(inflight))
  /\ isEditing' = FALSE
  /\ editingValue' = EmptyText
  /\ UNCHANGED <<cells, stored, invalidated, startTimers, nMutations, lastIssued, selectedCell, selection, isSelecting,
                 dragStart, clipboard>>
  /\ KeydownEffect(isEditing)

\* The PUT failed: onError raises the notification and nothing else
SaveError(i) ==
  /\ i \in 1..Len(inflight)
  /\ inflight' = SubSeq(inflight, 1, i - 1) \o SubSeq(inflight, i + 1, Len(inflight))
  /\ UNCHANGED <<cells, stored, invalidated, startTimers, nMutations, lastIssued, selectedCell, isEditing, editingValue,
                 selection, isSelecting, dragStart, clipboard>>
  /\ KeydownEffect(FALSE)

----------------------------------------------------------------------------
\* Collaboration channel: cell updates

\* The authenticated users of the two clients (user.id)
Clients == {1, 2}
\* The user of the grid component of Spec, SpecClip and SpecNav
LocalUser == 1
\* Cells, texts and wall-clock readings of the exchanged updates
CollabCells == {<<1, 1>>, <<1, 2>>}
\* The writes the clients make: a text and the reading of Date.now() at the
\* write (the clocks of the clients are not synchronised)
CollabWrites == { <<<<"a">>, 100>>, <<<<"b">>, 50>> }

\* A cell:update event (spreadsheetId and sheetId are those of the one sheet)
CellUpdate(userId, row, column, value, t) ==
  [row |-> row, column |-> column, value |-> value, userId |-> userId,
   timestamp |-> t]

\* The events broadcastCellUpdate gives to socket.emit('cell:update', ...):
\* none without a socket or a user; t is the reading of Date.now()
broadcastCellUpdate(socket, usr, row, column, value, t) ==
  IF ~socket \/ usr = None THEN <<>>
  ELSE << CellUpdate(usr[1], row, column, value, t) >>

\* The socket and the user of client c
socketOf(c) == IF c = LocalUser THEN socketPresent ELSE peerReady
userOf(c) == IF c = LocalUser THEN user ELSE IF peerReady THEN Some(c) ELSE None
\* The message effect of client c has registered its handlers and joined
registered(c) == IF c = LocalUser THEN listeners > 0 ELSE peerReady

\* handleCellUpdate without the check of the sender
handleCellUpdate_NoSelfCheck(localId, data) == << data >>

\* handleCellUpdate with the check of the sender inverted
handleCellUpdate_Inverted(localId, data) ==
  IF data.userId # localId THEN <<>> ELSE << data >>

\* handleCellUpdate forwarding every update as one of column 1
handleCellUpdate_FirstColumn(localId, data) ==
  IF data.userId = localId THEN <<>> ELSE << [data EXCEPT !.column = 1] >>

\* handleCellUpdate of the client of user localId: the calls of onCellUpdate
\* it makes for the inbound event data
handleCellUpdate(localId, data) ==
  IF data.userId = localId THEN <<>> ELSE << data >>

\* onCellUpdate of the page: the update's value becomes the cell's value in
\* the grid state store
onCellUpdate(st, update) ==
  [st EXCEPT ![<<update.row, update.column>>] = update.value]

RECURSIVE applyUpdates(_, _)
applyUpdates(st, updates) ==
  IF updates = <<>> THEN st
  ELSE applyUpdates(onCellUpdate(st, Head(updates)), Tail(updates))

\* A local cell write of client c, followed by broadcastCellUpdate; the relay
\* forwards an emitted event to every other client that joined the room
LocalEdit(c, pos, v, t) ==
  LET events == broadcastCellUpdate(socketOf(c), userOf(c), pos[1], pos[2], v, t)
  IN  /\ edits < MaxEmits
      /\ edits' = edits + 1
      /\ store' = [store EXCEPT ![c][pos] = v]
      /\ emitted' = [emitted EXCEPT ![c] = @ \o events]
      /\ inbox' = [d \in Clients |->
                     IF d = c \/ ~registered(d) THEN inbox[d] ELSE inbox[d] \o events]
      /\ \A d \in Clients : Len(inbox'[d]) <= MaxInbox
      /\ UNCHANGED <<callbacks, handled, peerReady>>

\* The relay sends an event back to the client that emitted it
RelayEcho(c, k) ==
  /\ registered(c)
  /\ k \in 1..Len(emitted[c])
  /\ Len(inbox[c]) < MaxInbox
  /\ handled[c] + Len(inbox[c]) < MaxHandled
  /\ inbox' = [inbox EXCEPT ![c] = Append(@, emitted[c][k])]
  /\ UNCHANGED <<store, emitted, callbacks, handled, edits, peerReady>>

\* socket.on('cell:update', handleCellUpdate): the next inbound event of
\* client c is handled
Deliver(c) ==
  /\ registered(c)
  /\ inbox[c] # <<>>
  /\ LET calls == handleCellUpdate(c, Head(inbox[c]))
     IN  /\ callbacks' = [callbacks EXCEPT ![c] = @ \o calls]
         /\ store' = [store EXCEPT ![c] = applyUpdates(@, calls)]
  /\ handled' = [handled EXCEPT ![c] = @ + 1]
  /\ inbox' = [inbox EXCEPT ![c] = Tail(@)]
  /\ UNCHANGED <<emitted, edits, peerReady>>

\* An event reaches client c while no handler is registered on its socket:
\* nothing is called
Unhandled(c) ==
  /\ ~registered(c)
  /\ inbox[c] # <<>>
  /\ inbox' = [inbox EXCEPT ![c] = Tail(@)]
  /\ UNCHANGED <<store, emitted, callbacks, handled, edits, peerReady>>

\* Client 2 gets its socket and its user: its message effect registers the
\* handlers and joins the room
PeerReady ==
  /\ ~peerReady
  /\ peerReady' = TRUE
  /\ UNCHANGED <<store, inbox, emitted, callbacks, handled, edits>>

\* Client 2 loses its socket: the cleanup of its message effect removes the
\* handlers
PeerGone ==
  /\ peerReady
  /\ peerReady' = FALSE
  /\ UNCHANGED <<store, inbox, emitted, callbacks, handled, edits>>

CollabInit ==
  /\ store = [c \in Clients |-> [p \in CollabCells |-> EmptyText]]
  /\ inbox = [c \in Clients |-> <<>>]
  /\ emitted = [c \in Clients |-> <<>>]
  /\ callbacks = [c \in Clients |-> <<>>]
  /\ handled = [c \in Clients |-> 0]
  /\ edits = 0
  /\ peerReady = FALSE

CollabNext ==
  \/ \E c \in Clients, pos \in CollabCells, w \in CollabWrites :
       LocalEdit(c, pos, w[1], w[2])
  \/ \E c \in Clients, k \in 1..MaxEmits : RelayEcho(c, k)
  \/ \E c \in Clients : Deliver(c)
  \/ \E c \in Clients : Unhandled(c)
  \/ PeerReady
  \/ PeerGone

----------------------------------------------------------------------------
\* Collaboration channel: cursor broadcast effect

CursorCells == {<<1, 1>>, <<1, 2>>, <<2, 1>>}

\* The effect runs because currentCell or isEditing changed: it creates a
\* debounce instance (its timeout is null) and calls it once, which starts a
\* timer of DEBOUNCE_WAIT ms whose callback emits the captured position
cursorEffect(socket, cell, usr, editing) ==
  IF ~socket \/ cell = None \/ usr = None THEN timers
  ELSE Append(timers, [due |-> now + DEBOUNCE_WAIT, row |-> cell[1].row,
                       column |-> cell[1].column, isEditing |-> editing])

\* The page passes a currentCell object for cell p (a new object also when
\* the position is the same): the effect runs
CursorMove(p) ==
  /\ Len(timers) + Len(cursorEmitted) < MaxTimers
  /\ currentCell' = Some([row |-> p[1], column |-> p[2]])
  /\ timers' = cursorEffect(socketPresent, currentCell', user, cursorEditing)
  /\ UNCHANGED <<cursorEditing, now, cursorEmitted>>

\* The page passes currentCell = null: the effect runs and returns at once
CursorClear ==
  /\ currentCell # None
  /\ currentCell' = None
  /\ timers' = cursorEffect(socketPresent, currentCell', user, cursorEditing)
  /\ UNCHANGED <<cursorEditing, now, cursorEmitted>>

CursorEditingChange ==
  /\ Len(timers) + Len(cursorEmitted) < MaxTimers
  /\ cursorEditing' = ~cursorEditing
  /\ timers' = cursorEffect(socketPresent, currentCell, user, cursorEditing')
  /\ UNCHANGED <<currentCell, now, cursorEmitted>>

\* A timer that is due runs: socket.emit('cursor:move', ...)
TimerFire(i) ==
  /\ i \in 1..Len(timers)
  /\ timers[i].due <= now
  /\ cursorEmitted' = Append(cursorEmitted,
        [row |-> timers[i].row, column |-> timers[i].column,
         isEditing |-> timers[i].isEditing])
  /\ timers' = SubSeq(timers, 1, i - 1) \o SubSeq(timers, i + 1, Len(timers))
  /\ UNCHANGED <<currentCell, cursorEditing, now>>

\* Time passes, once the timers that are due have run
Tick ==
  /\ now + TickMs <= MaxTime
  /\ \A i \in 1..Len(timers) : timers[i].due > now
  /\ now' = now + TickMs
  /\ UNCHANGED <<currentCell, cursorEditing, timers, cursorEmitted>>

CursorInit ==
  /\ currentCell = None
  /\ cursorEditing = FALSE
  /\ timers = <<>>
  /\ now = 0
  /\ cursorEmitted = <<>>

CursorNext ==
  \/ \E p \in CursorCells : CursorMove(p)
  \/ CursorClear
  \/ CursorEditingChange
  \/ \E i \in 1..MaxTimers : TimerFire(i)
  \/ Tick

----------------------------------------------------------------------------
\* Collaboration channel: presence, connection status and the message effect
\* of the channel of LocalUser

CURSOR_COLORS ==
  << "#FF6B6B", "#4ECDC4", "#45B7D1", "#FFA07A", "#98D8C8",
     "#F7DC6F", "#BB8FCE", "#85C1E9", "#F8C471", "#82E0AA" >>

\* CURSOR_COLORS[userId % CURSOR_COLORS.length] (the array is 0-based)
\* getUserColor giving every user the first color
getUserColor_First(userId) == CURSOR_COLORS[1]

getUserColor(userId) == CURSOR_COLORS[(userId % Len(CURSOR_COLORS)) + 1]

\* The users inbound events name: the local user and two remote users whose
\* ids are equal modulo the number of colors
PresenceUsers == {LocalUser, 2, 12}
\* Positions inbound cursor:move events carry, inside and outside the grid
CursorPositions == {<<2, 3>>, <<ROWS + 1, 3>>}
\* Cells inbound cell:update events carry, inside and outside the grid
InboundCells == {<<1, 1>>, <<ROWS + 1, 1>>, <<1, COLS + 1>>}
Statuses == {"connected", "disconnected"}

\* handleCollaboratorJoin keeping the row and column of a user that already
\* has an entry
handleCollaboratorJoin_KeepsCursor(prev, data) ==
  [u \in (DOMAIN prev) \cup {data.user.id} |->
     IF u = data.user.id
     THEN [userId |-> data.user.id, user |-> data.user,
           row |-> IF u \in DOMAIN prev THEN prev[u].row ELSE 1,
           column |-> IF u \in DOMAIN prev THEN prev[u].column ELSE 1,
           isEditing |-> FALSE, color |-> getUserColor(data.user.id)]
     ELSE prev[u]]

\* handleCollaboratorJoin: the updater given to setCollaborators
handleCollaboratorJoin(prev, data) ==
  [u \in (DOMAIN prev) \cup {data.user.id} |->
     IF u = data.user.id
     THEN [userId |-> data.user.id, user |-> data.user, row |-> 1, column |-> 1,
           isEditing |-> FALSE, color |-> getUserColor(data.user.id)]
     ELSE prev[u]]

\* handleCollaboratorLeave starting from an empty map instead of a copy
handleCollaboratorLeave_Fresh(prev, data) ==
  [u \in {} |-> prev[u]]

\* handleCollaboratorLeave: the updater given to setCollaborators
handleCollaboratorLeave(prev, data) ==
  [u \in (DOMAIN prev) \ {data.userId} |-> prev[u]]

\* handleCursorMove without the check of the sender
handleCursorMove_NoSelfCheck(localId, prev, data) ==
  IF data.userId \notin DOMAIN prev THEN prev
  ELSE [prev EXCEPT ![data.userId] =
          [@ EXCEPT !.row = data.row, !.column = data.column,
                    !.isEditing = data.isEditing]]

\* handleCursorMove creating an entry for a sender that has none
handleCursorMove_Creates(localId, prev, data) ==
  IF data.userId = localId THEN prev
  ELSE [u \in (DOMAIN prev) \cup {data.userId} |->
          IF u = data.userId
          THEN [userId |-> data.userId, user |-> [id |-> data.userId],
                row |-> data.row, column |-> data.column,
                isEditing |-> data.isEditing, color |-> getUserColor(data.userId)]
          ELSE prev[u]]

\* handleCursorMove of the channel of user localId
handleCursorMove(localId, prev, data) ==
  IF data.userId = localId THEN prev
  ELSE IF data.userId \notin DOMAIN prev THEN prev
  ELSE [prev EXCEPT ![data.userId] =
          [@ EXCEPT !.row = data.row, !.column = data.column,
                    !.isEditing = data.isEditing]]

\* handleConnectionStatus: the two states it sets
handleConnectionStatus(data) ==
  [connectionStatus |-> data.status, isConnected |-> data.status = "connected"]

\* The message effect runs again because one of its dependencies changed:
\* the cleanup its previous run returned (that run had a socket and a user)
\* removes the five handlers; with the socket and the user of the new render
\* present the handlers are registered and the room is joined, otherwise the
\* effect returns at once
MessageEffectRun ==
  /\ listeners' = (IF socketPresent /\ user # None THEN listeners - 1 ELSE listeners)
                    + (IF socketPresent' /\ user' # None THEN 1 ELSE 0)
  /\ joinEmitted' = joinEmitted + (IF socketPresent' /\ user' # None THEN 1 ELSE 0)
  /\ joinEmitted' <= MaxJoins

\* The cursor effect runs again because the socket or the user changed
CursorEffectRun ==
  /\ timers' = cursorEffect(socketPresent', currentCell, user', cursorEditing)
  /\ Len(timers') + Len(cursorEmitted) <= MaxTimers
  /\ UNCHANGED <<currentCell, cursorEditing, now, cursorEmitted>>

\* useWebSocket hands the socket over
SocketReady ==
  /\ ~socketPresent
  /\ socketPresent' = TRUE
  /\ UNCHANGED user
  /\ MessageEffectRun
  /\ CursorEffectRun
  /\ UNCHANGED <<collaborators, connectionStatus, isConnected, collabVars>>

\* The socket becomes null
SocketGone ==
  /\ socketPresent
  /\ socketPresent' = FALSE
  /\ UNCHANGED user
  /\ MessageEffectRun
  /\ CursorEffectRun
  /\ UNCHANGED <<collaborators, connectionStatus, isConnected, collabVars>>

\* useAuth hands the user over
UserReady ==
  /\ user = None
  /\ user' = Some(LocalUser)
  /\ UNCHANGED socketPresent
  /\ MessageEffectRun
  /\ CursorEffectRun
  /\ UNCHANGED <<collaborators, connectionStatus, isConnected, collabVars>>

\* The user becomes null
UserGone ==
  /\ user # None
  /\ user' = None
  /\ UNCHANGED socketPresent
  /\ MessageEffectRun
  /\ CursorEffectRun
  /\ UNCHANGED <<collaborators, connectionStatus, isConnected, collabVars>>

\* The effect running again without the cleanup of its previous run
CallbacksChange_NoCleanup ==
  /\ UNCHANGED <<socketPresent, user>>
  /\ listeners' = listeners + (IF socketPresent /\ user # None THEN 1 ELSE 0)
  /\ joinEmitted' = joinEmitted + (IF socketPresent /\ user # None THEN 1 ELSE 0)
  /\ joinEmitted' <= MaxJoins
  /\ UNCHANGED <<collaborators, connectionStatus, isConnected, collabVars, cursorVars>>

\* The page passes other onCellUpdate / onCollaboratorJoin /
\* onCollaboratorLeave functions: the message effect runs again
CallbacksChange ==
  /\ UNCHANGED <<socketPresent, user>>
  /\ MessageEffectRun
  /\ UNCHANGED <<collaborators, connectionStatus, isConnected, collabVars, cursorVars>>

\* socket.on('collaborator:join', handleCollaboratorJoin)
InboundJoin(u) ==
  /\ listeners > 0
  /\ collaborators' = handleCollaboratorJoin(collaborators, [user |-> [id |-> u]])
  /\ UNCHANGED <<connectionStatus, isConnected, socketPresent, user, listeners,
                 joinEmitted, collabVars>>
  /\ UNCHANGED gridVars

\* socket.on('collaborator:leave', handleCollaboratorLeave)
InboundLeave(u) ==
  /\ listeners > 0
  /\ collaborators' = handleCollaboratorLeave(collaborators, [userId |-> u])
  /\ UNCHANGED <<connectionStatus, isConnected, socketPresent, user, listeners,
                 joinEmitted, collabVars>>
  /\ UNCHANGED gridVars

\* socket.on('cursor:move', handleCursorMove)
InboundCursorMove(u, row, column, editing) ==
  /\ listeners > 0
  /\ collaborators' = handleCursorMove(LocalUser, collaborators,
        [userId |-> u, row |-> row, column |-> column, isEditing |-> editing])
  /\ UNCHANGED <<connectionStatus, isConnected, socketPresent, user, listeners,
                 joinEmitted, collabVars>>
  /\ UNCHANGED gridVars

\* The cell:update handler re-broadcasting what it applies
InboundCellUpdate_Rebroadcast(u, pos, v, t) ==
  /\ listeners > 0
  /\ handled[LocalUser] < MaxHandled
  /\ LET calls == handleCellUpdate(LocalUser, CellUpdate(u, pos[1], pos[2], v, t))
     IN  /\ callbacks' = [callbacks EXCEPT ![LocalUser] = @ \o calls]
         /\ store' = [store EXCEPT ![LocalUser] = applyUpdates(@, calls)]
         /\ emitted' = [emitted EXCEPT ![LocalUser] = @ \o calls]
  /\ handled' = [handled EXCEPT ![LocalUser] = @ + 1]
  /\ UNCHANGED <<inbox, edits, peerReady, presenceVars>>
  /\ UNCHANGED gridVars

\* The cell:update handler leaving Editing mode when it applies an update
InboundCellUpdate_CancelsEdit(u, pos, v, t) ==
  /\ listeners > 0
  /\ handled[LocalUser] < MaxHandled
  /\ LET calls == handleCellUpdate(LocalUser, CellUpdate(u, pos[1], pos[2], v, t))
     IN  /\ callbacks' = [callbacks EXCEPT ![LocalUser] = @ \o calls]
         /\ store' = [store EXCEPT ![LocalUser] = applyUpdates(@, calls)]
  /\ handled' = [handled EXCEPT ![LocalUser] = @ + 1]
  /\ isEditing' = FALSE
  /\ editingValue' = EmptyText
  /\ UNCHANGED <<inbox, emitted, edits, peerReady, presenceVars>>
  /\ UNCHANGED <<cells, stored, invalidated, startTimers, inflight, nMutations, lastIssued, selectedCell, selection,
                 isSelecting, dragStart, clipboard, handlerEnv>>

\* socket.on('cell:update', handleCellUpdate), for an event of any sender
InboundCellUpdate(u, pos, v, t) ==
  /\ listeners > 0
  /\ handled[LocalUser] < MaxHandled
  /\ LET calls == handleCellUpdate(LocalUser, CellUpdate(u, pos[1], pos[2], v, t))
     IN  /\ callbacks' = [callbacks EXCEPT ![LocalUser] = @ \o calls]
         /\ store' = [store EXCEPT ![LocalUser] = applyUpdates(@, calls)]
  /\ handled' = [handled EXCEPT ![LocalUser] = @ + 1]
  /\ UNCHANGED <<inbox, emitted, edits, peerReady, presenceVars>>
  /\ UNCHANGED gridVars

\* socket.on('connection:status', handleConnectionStatus)
InboundConnectionStatus(status) ==
  /\ listeners > 0
  /\ connectionStatus' = handleConnectionStatus([status |-> status]).connectionStatus
  /\ isConnected' = handleConnectionStatus([status |-> status]).isConnected
  /\ UNCHANGED <<collaborators, socketPresent, user, listeners, joinEmitted, collabVars>>
  /\ UNCHANGED gridVars

PresenceInit ==
  /\ collaborators = <<>>
  /\ connectionStatus = "connecting"
  /\ isConnected = FALSE
  /\ socketPresent = FALSE
  /\ user = None
  /\ listeners = 0
  /\ joinEmitted = 0

PresenceNext ==
  \/ SocketReady
  \/ SocketGone
  \/ UserReady
  \/ UserGone
  \/ CallbacksChange
  \/ \E u \in PresenceUsers : InboundJoin(u)
  \/ \E u \in PresenceUsers : InboundLeave(u)
  \/ \E u \in PresenceUsers, pos \in CursorPositions, editing \in BOOLEAN :
       InboundCursorMove(u, pos[1], pos[2], editing)
  \/ \E u \in {LocalUser, 2}, pos \in InboundCells :
       InboundCellUpdate(u, pos, <<"a">>, 50)
  \/ \E status \in Statuses : InboundConnectionStatus(status)

----------------------------------------------------------------------------
\* useKeyboardShortcuts: the keydown listener of the hook.  A callback that
\* is invoked is recorded by name (with its argument) in `invoked`.

ShortcutKeys ==
  {"ArrowUp", "ArrowDown", "ArrowLeft", "ArrowRight", "Tab", "Enter", "F2",
   "Delete", "Backspace", "Escape", "c", "v", "x", "z", "y", "a", "s", "f",
   "b", "i", "u", "n"}

\* the key switch of the branch taken when not editing
navigatingKey(key, isCtrlOrCmd, isShift) ==
  CASE key = "ArrowUp"    -> << "onArrowKeys(up)" >>
    [] key = "ArrowDown"  -> << "onArrowKeys(down)" >>
    [] key = "ArrowLeft"  -> << "onArrowKeys(left)" >>
    [] key = "ArrowRight" -> << "onArrowKeys(right)" >>
    [] key = "Tab"        -> << IF isShift THEN "onTab(true)" ELSE "onTab(false)" >>
    [] key = "Enter"      -> << "onEnter" >>
    [] key = "F2"         -> << "onF2" >>
    [] key \in {"Delete", "Backspace"} -> IF ~isCtrlOrCmd THEN << "onDelete" >> ELSE <<>>
    [] OTHER -> <<>>

\* the Ctrl/Cmd switch of the branch taken when not editing
navigatingChord(key, isShift) ==
  CASE key = "c" -> << "onCopy" >>
    [] key = "v" -> << "onPaste" >>
    [] key = "x" -> << "onCut" >>
    [] key = "z" -> << IF isShift THEN "onRedo" ELSE "onUndo" >>
    [] key = "y" -> << "onRedo" >>
    [] key = "a" -> << "onSelectAll" >>
    [] key = "s" -> << "onSave" >>
    [] key = "f" -> << "onFind" >>
    [] key = "b" -> << "onBold" >>
    [] key = "i" -> << "onItalic" >>
    [] key = "u" -> << "onUnderline" >>
    [] OTHER -> <<>>

\* the key switch of the branch taken when editing
editingKey(key, isShift) ==
  CASE key = "Enter"  -> IF ~isShift THEN << "onEnter" >> ELSE <<>>
    [] key = "Escape" -> << "onEscape" >>
    [] key = "Tab"    -> << IF isShift THEN "onTab(true)" ELSE "onTab(false)" >>
    [] OTHER -> <<>>

\* the Ctrl/Cmd switch of the branch taken when editing
editingChord(key, isShift) ==
  CASE key = "s" -> << "onSave" >>
    [] key = "z" -> << IF isShift THEN "onRedo" ELSE "onUndo" >>
    [] key = "y" -> << "onRedo" >>
    [] OTHER -> <<>>

\* the callbacks handleKeyDown of the hook invokes for one key event
shortcutCallbacks(editing, key, isCtrlOrCmd, isShift, isAlt) ==
  IF ~editing
  THEN navigatingKey(key, isCtrlOrCmd, isShift)
       \o (IF isCtrlOrCmd THEN navigatingChord(key, isShift) ELSE <<>>)
       \o (IF isAlt /\ key = "n" THEN << "onNewSheet" >> ELSE <<>>)
  ELSE editingKey(key, isShift)
       \o (IF isCtrlOrCmd THEN editingChord(key, isShift) ELSE <<>>)

\* A key event reaches the hook's listener; the hook is given the mode of
\* the grid as its isEditing.  The grid's own listener has no case for the
\* keys other than Enter, Escape and Tab in Editing mode.
ShortcutKeyDown(key, isCtrlOrCmd, isShift, isAlt) ==
  /\ invoked' = invoked \o shortcutCallbacks(isEditing, key, isCtrlOrCmd, isShift, isAlt)
  /\ Len(invoked') <= MaxInvoked
  /\ UNCHANGED gridVars

ShortcutInit == invoked = <<>>

----------------------------------------------------------------------------
\* Grid: specification

\* Cells a sheet holds when it is opened: each was stored by an earlier PUT
storedCell(value) ==
  [value |-> value, formula |-> mutationFn(1, 1, value).formula,
   dataType |-> mutationFn(1, 1, value).dataType]

InitialGrids ==
  { <<>>,
    (<<1, 1>> :> storedCell(<<"4", "2">>)) @@ (<<1, 2>> :> storedCell(<<"h", "i">>)) }

GridInit ==
  /\ cells \in InitialGrids
  /\ stored = cells
  /\ invalidated = FALSE
  /\ startTimers = <<>>
  /\ inflight = <<>>
  /\ nMutations = 0
  /\ lastIssued = <<>>
  /\ selectedCell = None
  /\ isEditing = FALSE
  /\ editingValue = EmptyText
  /\ selection = None
  /\ isSelecting = FALSE
  /\ dragStart = None
  /\ clipboard = <<>>
  /\ handlerEnv = [editingValue |-> EmptyText, clipboard |-> <<>>, cells |-> cells]

\* Editing and persistence: pointer, F2, typing, commit, cancel, clear and
\* the completion of the requests
EditCells == {<<1, 1>>, <<1, 2>>}

EditNext ==
  \/ \E p \in EditCells : handleMouseDown(p[1], p[2], FALSE)
  \/ handleMouseUp
  \/ KeyF2
  \/ \E v \in EditValues : TypeText(v)
  \/ KeyEnterEditing
  \/ KeyEscapeEditing
  \/ \E shift \in BOOLEAN : KeyTabEditing(shift)
  \/ KeyDelete
  \/ \E i \in 1..Len(inflight) : SaveSuccess(i)
  \/ Refetch
  \/ \E i \in 1..Len(inflight) : SaveError(i)

Init == GridInit /\ CollabInit /\ CursorInit /\ PresenceInit /\ ShortcutInit
Next == EditNext /\ nMutations' <= MaxEdits /\ UNCHANGED <<collabVars, cursorVars, presenceVars, shortcutVars>>
Spec == Init /\ [][Next]_vars

\* Entering Editing mode: click, double click, F2, typing, commit, cancel
StartNext ==
  \/ \E p \in EditCells : handleMouseDown(p[1], p[2], FALSE)
  \/ \E p \in EditCells : handleDoubleClick(p[1], p[2])
  \/ StartEditingTimer
  \/ KeyF2
  \/ \E v \in EditValues : TypeText(v)
  \/ KeyEnterEditing
  \/ KeyEscapeEditing
  \/ \E i \in 1..Len(inflight) : SaveSuccess(i)
  \/ Refetch

NextStart == StartNext /\ nMutations' <= MaxEdits /\ UNCHANGED <<collabVars, cursorVars, presenceVars, shortcutVars>>
SpecStart == Init /\ [][NextStart]_vars

\* Key events in both modes: the grid's listener for F2, Enter, Escape and
\* Tab, and the listener of the shortcuts hook
KeysNext ==
  \/ /\ \/ \E p \in EditCells : handleMouseDown(p[1], p[2], FALSE)
        \/ KeyF2
        \/ KeyEnterEditing
        \/ KeyEscapeEditing
        \/ \E shift \in BOOLEAN : KeyTabEditing(shift)
     /\ UNCHANGED shortcutVars
  \/ \E key \in ShortcutKeys, isCtrlOrCmd \in BOOLEAN, isShift \in BOOLEAN, isAlt \in BOOLEAN :
       ShortcutKeyDown(key, isCtrlOrCmd, isShift, isAlt)

NextKeys == KeysNext /\ nMutations' <= MaxEdits /\ UNCHANGED <<collabVars, cursorVars, presenceVars>>
SpecKeys == Init /\ [][NextKeys]_vars

\* Clearing: ranges made with the pointer, arrow keys, Delete / Backspace
ClearCells == {<<1, 1>>, <<1, 2>>, <<2, 1>>}

ClearNext ==
  \/ \E p \in ClearCells, shift \in BOOLEAN : handleMouseDown(p[1], p[2], shift)
  \/ \E key \in {"ArrowDown", "ArrowRight"} : KeyNavigate(key, FALSE)
  \/ KeyDelete

NextClear == ClearNext /\ nMutations' <= MaxClipWrites /\ UNCHANGED <<collabVars, cursorVars, presenceVars, shortcutVars>>
SpecClear == Init /\ [][NextClear]_vars

\* Clipboard: ranges made with the pointer, copy, cut, paste
ClipCells == {<<1, 1>>, <<1, 2>>, <<ROWS, COLS>>}

ClipNext ==
  \/ \E p \in ClipCells, shift \in BOOLEAN : handleMouseDown(p[1], p[2], shift)
  \/ KeyCopy
  \/ KeyPaste
  \/ KeyCut
  \/ \E i \in 1..Len(inflight) : SaveSuccess(i)
  \/ Refetch

NextClip == ClipNext /\ nMutations' <= MaxClipWrites /\ UNCHANGED <<collabVars, cursorVars, presenceVars, shortcutVars>>
SpecClip == Init /\ [][NextClip]_vars

\* Navigation and selection: navigation keys, pointer, select-all
NavCells == {<<1, 1>>, <<2, 2>>, <<ROWS, COLS>>}

NavNext ==
  \/ \E key \in NavKeys, shift \in BOOLEAN : KeyNavigate(key, shift)
  \/ KeySelectAll
  \/ \E p \in NavCells, shift \in BOOLEAN : handleMouseDown(p[1], p[2], shift)
  \/ \E p \in NavCells : handleMouseEnter(p[1], p[2])
  \/ handleMouseUp

NextNav == NavNext /\ UNCHANGED <<collabVars, cursorVars, presenceVars, shortcutVars>>
SpecNav == Init /\ [][NextNav]_vars

\* The grid in use while peer events arrive: click, Shift+click, F2, typing,
\* Escape and copy on the grid (no persistence write is issued here); join,
\* leave, cursor-move, cell-update and connection-status events of a remote
\* user on the channel
InboundNext ==
  \/ /\ \/ \E p \in EditCells, shift \in BOOLEAN : handleMouseDown(p[1], p[2], shift)
        \/ KeyF2
        \/ TypeText(<<"h", "i">>)
        \/ KeyEscapeEditing
        \/ KeyCopy
     /\ UNCHANGED <<collabVars, presenceVars>>
  \/ SocketReady /\ UNCHANGED gridVars
  \/ UserReady /\ UNCHANGED gridVars
  \/ InboundJoin(2)
  \/ InboundLeave(2)
  \/ \E editing \in BOOLEAN : InboundCursorMove(2, 2, 3, editing)
  \/ \E u \in {LocalUser, 2} : InboundCellUpdate(u, <<1, 1>>, <<"a">>, 50)
  \/ \E status \in Statuses : InboundConnectionStatus(status)

NextInbound == InboundNext /\ nMutations' = nMutations /\ UNCHANGED <<cursorVars, shortcutVars>>
SpecInbound == Init /\ [][NextInbound]_vars

\* The active cell under key events of both modes and pointer events: the
\* navigation keys, F2, Enter, Tab and Escape while editing, Delete, and
\* pointer-down on cells at the corners of the grid
ActiveNext ==
  \/ \E key \in NavKeys, shift \in BOOLEAN : KeyNavigate(key, shift)
  \/ \E p \in NavCells : handleMouseDown(p[1], p[2], FALSE)
  \/ KeyF2
  \/ KeyEnterEditing
  \/ KeyEscapeEditing
  \/ \E shift \in BOOLEAN : KeyTabEditing(shift)
  \/ KeyDelete

NextActive == ActiveNext /\ nMutations' <= MaxEdits /\ UNCHANGED <<collabVars, cursorVars, presenceVars, shortcutVars>>
SpecActive == Init /\ [][NextActive]_vars

\* A Range and the keyboard: ranges made with the pointer, then navigation
\* keys, entering and leaving Editing, Delete and copy
FrameKeys == {"ArrowDown", "Tab", "Enter"}
FrameCells == {<<1, 1>>, <<1, 2>>, <<2, 1>>, <<2, 2>>}

FrameNext ==
  \/ \E p \in EditCells, shift \in BOOLEAN : handleMouseDown(p[1], p[2], shift)
  \/ \E key \in FrameKeys : KeyNavigate(key, FALSE)
  \/ KeyF2
  \/ KeyEnterEditing
  \/ KeyEscapeEditing
  \/ \E shift \in BOOLEAN : KeyTabEditing(shift)
  \/ KeyDelete
  \/ KeyCopy

NextFrame == FrameNext /\ (selectedCell' # None => <<Row', Column'>> \in FrameCells) /\ nMutations' <= MaxClipWrites /\ UNCHANGED <<collabVars, cursorVars, presenceVars, shortcutVars>>
SpecFrame == Init /\ [][NextFrame]_vars

----------------------------------------------------------------------------
\* Collaboration specifications

\* Two clients and the relay, with the socket and the user of client 1
\* arriving
NextCollab ==
  /\ \/ CollabNext /\ UNCHANGED presenceVars
     \/ SocketReady
     \/ UserReady
  /\ UNCHANGED <<gridVars, cursorVars, shortcutVars>>
SpecCollab == Init /\ [][NextCollab]_vars

\* The cursor effect, with the socket and the user arriving and the socket
\* going away
NextCursor ==
  /\ \/ CursorNext /\ UNCHANGED presenceVars
     \/ SocketReady
     \/ UserReady
     \/ SocketGone
  /\ UNCHANGED <<gridVars, collabVars, shortcutVars>>
SpecCursor == Init /\ [][NextCursor]_vars

NextPresence == PresenceNext /\ UNCHANGED <<gridVars, cursorVars, shortcutVars>>
SpecPresence == Init /\ [][NextPresence]_vars

----------------------------------------------------------------------------
\* Properties of the collaboration channel

\* The events a step appends to a sequence that only grows
Appended(before, after) == SubSeq(after, Len(before) + 1, Len(after))

\* C1: once every emitted cell update has been delivered to every other
\* client and no edit is pending, the two clients hold the same value for
\* every cell, also when both wrote the same cell concurrently.
C1_Convergence ==
  (/\ Len(emitted[1]) + Len(emitted[2]) = edits
   /\ \A c \in Clients :
        /\ inbox[c] = <<>>
        /\ \A d \in Clients \ {c} : Len(callbacks[c]) = Len(emitted[d]))
    => store[1] = store[2]

\* C2: every local cell write (each saveCellMutation.mutate call of a commit,
\* a clear, a paste or a cut) causes exactly one outbound cell:update event
\* carrying the local user's id and the row, column and value of the write.
C2_WriteEmitsUpdate ==
  [][LET reqs == Appended(inflight, inflight')
         events == Appended(emitted[LocalUser], emitted'[LocalUser])
     IN  nMutations' > nMutations =>
           /\ Len(events) = Len(reqs)
           /\ \A k \in 1..Len(reqs) :
                /\ events[k].userId = LocalUser
                /\ events[k].row = reqs[k].row
                /\ events[k].column = reqs[k].column
                /\ events[k].value = reqs[k].value]_vars

\* C3: an inbound cell update whose userId is the local user's id is never
\* applied: handling it leaves the client's cells as the local write made
\* them and does not invoke the cell-update callback, however often the
\* relay echoes the event.
C3_SelfEchoIgnored ==
  [][\A c \in Clients :
       /\ (Deliver(c) /\ Head(inbox[c]).userId = c) =>
            (store'[c] = store[c] /\ callbacks'[c] = callbacks[c])
       /\ \A k \in 1..Len(callbacks'[c]) : callbacks'[c][k].userId # c]_vars

\* Client c wrote one cell once, the relay echoed the event twice, and both
\* echoes were handled without a callback: the cell holds the written value
C3_Witness ==
  \E c \in Clients :
    /\ Len(emitted[c]) = 1
    /\ handled[c] = 2
    /\ callbacks[c] = <<>>
    /\ store[c][<<emitted[c][1].row, emitted[c][1].column>>] = emitted[c][1].value

\* C4: inbound cell updates of remote users are applied in delivery order,
\* whatever their timestamps: each one delivered is handed to the callback
\* next and its value becomes the cell's value, so of two updates to one cell
\* the one delivered last wins.
C4_DeliveryOrderWins ==
  [][\A c \in Clients :
       (Deliver(c) /\ Head(inbox[c]).userId # c) =>
         LET e == Head(inbox[c])
         IN  /\ callbacks'[c] = Append(callbacks[c], e)
             /\ store'[c][<<e.row, e.column>>] = e.value]_vars

\* Two remote updates to one cell were delivered as e1 then e2, e2 carrying
\* the smaller timestamp and another value: the cell holds e2's value
C4_Witness ==
  \E c \in Clients :
    /\ Len(callbacks[c]) = 2
    /\ LET e1 == callbacks[c][1]
           e2 == callbacks[c][2]
       IN  /\ e1.row = e2.row /\ e1.column = e2.column
           /\ e2.timestamp < e1.timestamp
           /\ e1.value # e2.value
           /\ store[c][<<e2.row, e2.column>>] = e2.value

\* C5: the cursor broadcast is debounced: a new cursor movement cancels the
\* pending emission, so at most one emission is pending and it carries the
\* last position.
C5_CursorDebounced ==
  /\ Len(timers) <= 1
  /\ Len(timers) = 1 =>
       /\ currentCell # None
       /\ timers[1].row = currentCell[1].row
       /\ timers[1].column = currentCell[1].column
       /\ timers[1].isEditing = cursorEditing

----------------------------------------------------------------------------
\* Properties of the grid

\* C6: for every in-bounds cell and every text v, writing v to the cell and
\* then reading the cell returns v, with dataType formula and formula v when
\* v starts with '=', dataType number when v parses as a number, and dataType
\* text otherwise.  The write is saveCellMutation.mutate and the read is
\* getCellValue over the cells of the render that follows the write.
C6_WriteThenRead ==
  [][nMutations' > nMutations =>
       \A k \in 1..Len(Appended(inflight, inflight')) :
         LET req == Appended(inflight, inflight')[k]
             v == req.value
             p == <<req.row, req.column>>
         IN  InBounds(p[1], p[2]) =>
               /\ getCellValue(cells', p[1], p[2]) = v
               /\ p \in DOMAIN cells'
               /\ cells'[p].dataType =
                    (IF startsWithEq(v) THEN "formula"
                     ELSE IF NumberIsNaN(v) THEN "text" ELSE "number")
               /\ cells'[p].formula = (IF startsWithEq(v) THEN v ELSE Null)]_vars

\* The cell a clipboard entry is pasted to when the paste is anchored at the
\* active cell
TargetOf(k) ==
  <<Row + (clipboard[k].row - clipboard[1].row),
    Column + (clipboard[k].column - clipboard[1].column)>>

\* C7: copying the selection and pasting with the anchor at the source's
\* top-left cell leaves the grid as it was: once the paste's writes are
\* stored, every cell's presence, value, formula and dataType are those
\* before the copy.
C7_CopyPasteIdempotent ==
  [][(/\ KeyPaste
      /\ inflight = <<>>
      /\ clipboard # <<>>
      /\ clipboard = copySelection(cells, selection, selectedCell)
      /\ TargetOf(1) = <<clipboard[1].row, clipboard[1].column>>)
     => writeAll(cells, inflight') = cells]_vars

\* C8: a cut of a range followed by a paste at a new anchor, the targets in
\* bounds and apart from the source, leaves every source cell cleared and
\* every target cell holding the value its source cell had before the cut:
\* the cut captures, for every cell of the range, the value the cell has and
\* issues its clearing write, and the paste writes every captured value to
\* the cell at the same offset from the anchor.
C8_CutThenPaste ==
  [][/\ (KeyCut /\ selection # None) =>
          /\ Len(clipboard') = RangeSize(selection[1])
          /\ \A k \in 1..RangeSize(selection[1]) :
               LET p == RangeCell(selection[1], k)
               IN  /\ <<clipboard'[k].row, clipboard'[k].column>> = p
                   /\ clipboard'[k].value = getCellValue(cells, p[1], p[2])
                   /\ \E j \in 1..Len(Appended(inflight, inflight')) :
                        LET req == Appended(inflight, inflight')[j]
                        IN  <<req.row, req.column>> = p /\ req.value = EmptyText
     /\ (/\ KeyPaste
         /\ clipboard # <<>>
         /\ \A k \in 1..Len(clipboard) :
              /\ InBounds(TargetOf(k)[1], TargetOf(k)[2])
              /\ \A j \in 1..Len(clipboard) :
                   TargetOf(k) # <<clipboard[j].row, clipboard[j].column>>) =>
          \A k \in 1..Len(clipboard) :
            \E j \in 1..Len(Appended(inflight, inflight')) :
              LET req == Appended(inflight, inflight')[j]
              IN  <<req.row, req.column>> = TargetOf(k) /\ req.value = clipboard[k].value]_vars

\* C9: a paste writes exactly the clipboard entries whose target lies inside
\* the grid: one write per in-bounds target, with the entry's value, and no
\* write for a target outside the grid.
C9_PasteInBoundsOnly ==
  [][KeyPaste =>
       LET reqs == Appended(inflight, inflight')
           kept == IF clipboard = <<>> THEN {}
                   ELSE {k \in 1..Len(clipboard) : InBounds(TargetOf(k)[1], TargetOf(k)[2])}
       IN  /\ Len(reqs) = Cardinality(kept)
           /\ \A j \in 1..Len(reqs) : InBounds(reqs[j].row, reqs[j].column)
           /\ \A k \in kept :
                \E j \in 1..Len(reqs) :
                  /\ <<reqs[j].row, reqs[j].column>> = TargetOf(k)
                  /\ reqs[j].value = clipboard[k].value]_vars

\* The unit step of a navigation key
Direction(key, shift) ==
  CASE key = "ArrowUp"    -> <<-1, 0>>
    [] key = "ArrowDown"  -> <<1, 0>>
    [] key = "ArrowLeft"  -> <<0, -1>>
    [] key = "ArrowRight" -> <<0, 1>>
    [] key = "Tab"        -> IF shift THEN <<0, -1>> ELSE <<0, 1>>
    [] key = "Enter"      -> IF shift THEN <<-1, 0>> ELSE <<1, 0>>

\* C10: in Navigating mode a navigation key moves the active cell by one
\* unit in its direction when that cell is in bounds and leaves the active
\* cell unchanged at the edge; it never wraps.
C10_NavigationClamped ==
  [][\A key \in NavKeys, shift \in BOOLEAN :
       KeyNavigate(key, shift) =>
         LET r == Row + Direction(key, shift)[1]
             c == Column + Direction(key, shift)[2]
         IN  selectedCell' = IF InBounds(r, c)
                             THEN Some([row |-> r, column |-> c])
                             ELSE selectedCell]_vars

\* A navigation key has moved the active cell to a cell no pointer event of
\* the specification selects
C10_Witness ==
  /\ selectedCell # None
  /\ <<Row, Column>> \notin NavCells
  /\ ~isEditing

----------------------------------------------------------------------------
\* Properties of presence and of the message effect

\* C11: a collaborator-leave for a userId without a Presence entry leaves
\* the Presence map unchanged; one for a present userId removes exactly that
\* entry and leaves every other entry unchanged.
C11_LeaveRemovesOnlyThat ==
  [][\A u \in PresenceUsers :
       InboundLeave(u) =>
         /\ DOMAIN collaborators' = (DOMAIN collaborators) \ {u}
         /\ \A w \in DOMAIN collaborators' : collaborators'[w] = collaborators[w]
         /\ u \notin DOMAIN collaborators => collaborators' = collaborators]_vars

\* One remote user is present with a cursor learned from a cursor:move while
\* the other remote user is not present: a leave of either is the claim's case
C11_Witness ==
  /\ DOMAIN collaborators = {12}
  /\ collaborators[12].row = 2
  /\ collaborators[12].isEditing

\* C13: handling an inbound event (cell-update, cursor-move,
\* collaborator-join, collaborator-leave, connection-status) sends nothing:
\* no cell:update, no cursor:move and no join announcement is emitted.
C13_InboundNeverEmits ==
  [][(\/ \E u \in PresenceUsers : InboundJoin(u) \/ InboundLeave(u)
      \/ \E u \in PresenceUsers, pos \in CursorPositions, editing \in BOOLEAN :
            InboundCursorMove(u, pos[1], pos[2], editing)
      \/ \E u \in {LocalUser, 2}, pos \in InboundCells :
            InboundCellUpdate(u, pos, <<"a">>, 50)
      \/ \E status \in Statuses : InboundConnectionStatus(status))
     => /\ emitted' = emitted
        /\ cursorEmitted' = cursorEmitted
        /\ joinEmitted' = joinEmitted]_vars

\* Remote cell updates were applied and a remote user is present, and the
\* local user's channel has emitted no cell:update
C13_Witness ==
  /\ Len(callbacks[LocalUser]) = MaxHandled
  /\ collaborators # <<>>
  /\ connectionStatus = "connected"
  /\ emitted[LocalUser] = <<>>

\* C14: the channel sends one join announcement each time it enters the
\* connected state for a sheet: a join is emitted only by the step in which
\* the socket becomes available, not while it stays connected.
C14_JoinOncePerConnect ==
  [][joinEmitted' # joinEmitted =>
       /\ joinEmitted' = joinEmitted + 1
       /\ ~(socketPresent /\ user # None)
       /\ socketPresent' /\ user' # None]_vars

\* C15: an inbound cursor-move or cell-update whose row or column is outside
\* the grid is ignored: the Presence map and the grid are unchanged and the
\* cell-update callback is not invoked.
C15_OutOfBoundsIgnored ==
  [][/\ \A u \in PresenceUsers, pos \in CursorPositions, editing \in BOOLEAN :
          (InboundCursorMove(u, pos[1], pos[2], editing) /\ ~InBounds(pos[1], pos[2]))
            => collaborators' = collaborators
     /\ \A u \in {LocalUser, 2}, pos \in InboundCells :
          (InboundCellUpdate(u, pos, <<"a">>, 50) /\ ~InBounds(pos[1], pos[2]))
            => (callbacks' = callbacks /\ store' = store)]_vars

\* C16: the Presence map holds entries of remote peers only: no entry is
\* keyed by the local user's id, and every entry is stored under the id of
\* its user (one entry per userId).
C16_OnlyRemotePeers ==
  /\ LocalUser \notin DOMAIN collaborators
  /\ \A u \in DOMAIN collaborators : collaborators[u].userId = u

\* C17: a cursor-move of the local user's id leaves the Presence map
\* unchanged; one of a present remote user sets that entry's row, column and
\* isEditing to the event's values and leaves its user, its color and all
\* other entries unchanged.
C17_CursorMoveUpdatesEntry ==
  [][\A u \in PresenceUsers, pos \in CursorPositions, editing \in BOOLEAN :
       InboundCursorMove(u, pos[1], pos[2], editing) =>
         /\ u = LocalUser => collaborators' = collaborators
         /\ (u # LocalUser /\ u \in DOMAIN collaborators) =>
              /\ DOMAIN collaborators' = DOMAIN collaborators
              /\ collaborators'[u] =
                   [userId |-> u, user |-> collaborators[u].user,
                    color |-> collaborators[u].color,
                    row |-> pos[1], column |-> pos[2], isEditing |-> editing]
              /\ \A w \in (DOMAIN collaborators) \ {u} :
                   collaborators'[w] = collaborators[w]]_vars

\* A present remote user's entry holds a position and an editing flag that
\* only a cursor-move sets, next to an entry still at its join position
C17_Witness ==
  /\ {2, 12} \subseteq DOMAIN collaborators
  /\ collaborators[2].row = 2 /\ collaborators[2].column = 3
  /\ collaborators[2].isEditing
  /\ collaborators[12].row = 1 /\ collaborators[12].column = 1

----------------------------------------------------------------------------
\* Properties of editing and persistence

\* C12: every exit from Editing to Navigating other than Escape (Enter,
\* Tab, Shift+Tab, pointer-down on a cell) issues exactly one write, of the
\* current edit buffer, to the cell being edited; the exit by Escape issues
\* no write, leaves the cells unchanged and empties the buffer.
C12_ExitFlushesBuffer ==
  [][(Editing /\ ~isEditing') =>
       IF KeyEscapeEditing
       THEN inflight' = inflight /\ cells' = cells /\ editingValue' = EmptyText
       ELSE LET reqs == Appended(inflight, inflight')
            IN  /\ Len(reqs) = 1
                /\ reqs[1].row = Row
                /\ reqs[1].column = Column
                /\ reqs[1].value = editingValue]_vars

\* C18: writes to one cell are not queued, and once the writes to a cell
\* have completed the persisted value of the cell is the value of the latest
\* call, in whatever order they completed.
C18_LastCallWins ==
  \A p \in DOMAIN lastIssued :
    (\A k \in 1..Len(inflight) : <<inflight[k].row, inflight[k].column>> # p)
      => getCellValue(stored, p[1], p[2]) = lastIssued[p]

\* C19: a failed persistence write rolls nothing back: the step that reports
\* the failure leaves the active cell, the mode, the edit buffer, the
\* selection, the clipboard and the cells unchanged, and later edits are
\* still issued.
C19_FailureRollsNothingBack ==
  [][\A i \in 1..Len(inflight) :
       SaveError(i) =>
         UNCHANGED <<cells, stored, invalidated, startTimers, selectedCell, isEditing, editingValue, selection,
                     isSelecting, dragStart, clipboard>>]_vars

\* The write to a cell has failed (it is no longer in flight and the cell
\* does not hold its value), and a later write to another cell was issued
\* while the grid is in Editing mode again
C19_Witness ==
  /\ Len(inflight) = 1
  /\ isEditing
  /\ \E p \in DOMAIN lastIssued :
       /\ p # <<inflight[1].row, inflight[1].column>>
       /\ getCellValue(stored, p[1], p[2]) # lastIssued[p]

\* C20: F2 on the active cell, or a double click on cell (r, c), enters
\* Editing with that cell the active cell and the edit buffer equal to that
\* cell's current value, whatever cell was active before the double click:
\* the double click makes (r, c) the active cell and the timer it sets enters
\* Editing with the buffer equal to the value of the active cell.
C20_StartEditingSeedsBuffer ==
  [][/\ KeyF2 =>
          /\ isEditing' /\ selectedCell' = selectedCell
          /\ editingValue' = getCellValue(cells, Row, Column)
     /\ \A p \in EditCells :
          handleDoubleClick(p[1], p[2]) =>
            selectedCell' = Some([row |-> p[1], column |-> p[2]])
     /\ StartEditingTimer =>
          /\ isEditing' /\ selectedCell' = selectedCell
          /\ editingValue' = getCellValue(cells, Row, Column)]_vars

----------------------------------------------------------------------------
\* Properties of the pointer and key handlers of the grid

\* C21: a pointer-down on cell (r, c) while the grid is Editing cell (a, b)
\* issues one write of the edit buffer to (a, b), makes (r, c) the active
\* cell, and leaves the grid in Navigating mode with an empty edit buffer.
C21_PointerDownCommitsFirst ==
  [][\A p \in EditCells :
       (Editing /\ handleMouseDown(p[1], p[2], FALSE)) =>
         /\ Appended(inflight, inflight') = << mutationFn(Row, Column, editingValue) >>
         /\ selectedCell' = Some([row |-> p[1], column |-> p[2]])
         /\ ~isEditing'
         /\ editingValue' = EmptyText]_vars

\* On the empty sheet the typed buffer "hi" of the cell (1, 1) is in flight
\* for (1, 1) and the active cell is (1, 2): the edit of (1, 1) was ended by
\* a pointer-down on (1, 2)
C21_Witness ==
  /\ cells = <<>>
  /\ nMutations = 1
  /\ inflight = << mutationFn(1, 1, <<"h", "i">>) >>
  /\ selectedCell = Some([row |-> 1, column |-> 2])
  /\ ~isEditing
  /\ editingValue = EmptyText

\* C22: in Editing mode only Enter, Escape and Tab are handled: a key event
\* with any other key changes no state of the grid and invokes no shortcut
\* callback; Enter issues one write to the cell being edited and moves the
\* active cell one row down.
C22_EditingHandlesThreeKeys ==
  [][/\ \A key \in ShortcutKeys \ {"Enter", "Escape", "Tab"} :
          \A isCtrlOrCmd \in BOOLEAN, isShift \in BOOLEAN, isAlt \in BOOLEAN :
            (Editing /\ ShortcutKeyDown(key, isCtrlOrCmd, isShift, isAlt))
              => UNCHANGED <<gridVars, shortcutVars>>
     /\ (Editing /\ KeyEnterEditing) =>
          /\ Len(Appended(inflight, inflight')) = 1
          /\ Appended(inflight, inflight')[1].row = Row
          /\ Appended(inflight, inflight')[1].column = Column
          /\ selectedCell' = Some([row |-> IF Row < ROWS THEN Row + 1 ELSE Row,
                                   column |-> Column])]_vars

\* C23: every Range selection of every reachable state is normalized and in
\* bounds: 1 <= startRow <= endRow <= ROWS and 1 <= startCol <= endCol <= COLS.
C23_RangeNormalized ==
  selection # None =>
    /\ 1 <= selection[1].startRow
    /\ selection[1].startRow <= selection[1].endRow
    /\ selection[1].endRow <= ROWS
    /\ 1 <= selection[1].startCol
    /\ selection[1].startCol <= selection[1].endCol
    /\ selection[1].endCol <= COLS

\* A drag is in progress whose pointer is above and to the left of its
\* anchor: the Range starts before the anchor in both directions
C23_Witness ==
  /\ isSelecting
  /\ dragStart # None
  /\ selection # None
  /\ selection[1].startRow < dragStart[1].row
  /\ selection[1].startCol < dragStart[1].col
  /\ selection[1].endRow = dragStart[1].row
  /\ selection[1].endCol = dragStart[1].col

\* C24: an unmodified pointer-down at A starts a drag anchored at A; during
\* the drag each pointer-enter over H sets the Range to the rectangle spanned
\* by A and H; pointer-up ends the drag and leaves the Range and the active
\* cell unchanged; a pointer-enter with no drag in progress leaves the Range
\* unchanged.
C24_DragRecomputesRange ==
  [][/\ \A p \in NavCells :
          handleMouseDown(p[1], p[2], FALSE) =>
            /\ isSelecting'
            /\ dragStart' = Some([row |-> p[1], col |-> p[2]])
            /\ selection' = None
     /\ \A p \in NavCells :
          handleMouseEnter(p[1], p[2]) =>
            IF isSelecting /\ dragStart # None
            THEN selection' = Some(spanOf(dragStart[1].row, dragStart[1].col, p[1], p[2]))
            ELSE selection' = selection
     /\ handleMouseUp =>
          /\ ~isSelecting'
          /\ dragStart' = None
          /\ selection' = selection
          /\ selectedCell' = selectedCell]_vars

\* The drag from (2, 2) to the last cell has ended: the Range it made is
\* kept, (2, 2) is the active cell and no drag is in progress
C24_Witness ==
  /\ ~isSelecting
  /\ dragStart = None
  /\ selectedCell = Some([row |-> 2, column |-> 2])
  /\ selection = Some(spanOf(2, 2, ROWS, COLS))

\* C25: in Navigating mode Delete or Backspace issues a clearing write (the
\* empty value) for exactly the cells of the Range when a Range exists, and
\* for exactly the active cell when there is none; no other cell is written.
C25_DeleteClearsSelection ==
  [][KeyDelete =>
       LET reqs == Appended(inflight, inflight')
           written == { <<reqs[k].row, reqs[k].column>> : k \in 1..Len(reqs) }
       IN  /\ \A k \in 1..Len(reqs) : reqs[k].value = EmptyText
           /\ IF selection # None
              THEN /\ Len(reqs) = RangeSize(selection[1])
                   /\ written = (selection[1].startRow..selection[1].endRow)
                                  \X (selection[1].startCol..selection[1].endCol)
              ELSE /\ Len(reqs) = 1
                   /\ written = { <<Row, Column>> }]_vars

\* The Range (1, 1)-(1, 2) was cleared while the active cell (2, 2) lies
\* outside of it: the clearing writes of its two cells are in flight
C25_Witness ==
  /\ selection = Some(spanOf(1, 1, 1, 2))
  /\ selectedCell = Some([row |-> 2, column |-> 2])
  /\ inflight = << mutationFn(1, 1, EmptyText), mutationFn(1, 2, EmptyText) >>

----------------------------------------------------------------------------
\* Properties relating the channel and the grid

\* C26: handling an inbound collaborator-join, collaborator-leave,
\* cursor-move, cell-update or connection-status event leaves the active
\* cell, the mode, the edit buffer, the Range selection and the clipboard
\* unchanged.
C26_InboundLeavesInputAlone ==
  [][(\/ InboundJoin(2)
      \/ InboundLeave(2)
      \/ \E editing \in BOOLEAN : InboundCursorMove(2, 2, 3, editing)
      \/ \E u \in {LocalUser, 2} : InboundCellUpdate(u, <<1, 1>>, <<"a">>, 50)
      \/ \E status \in Statuses : InboundConnectionStatus(status))
       => UNCHANGED <<selectedCell, isEditing, editingValue, selection, clipboard>>]_vars

\* The grid is Editing (1, 1) with the typed buffer "hi", a Range and a
\* filled clipboard, and a remote update was applied, a remote cursor moved
\* and the status event arrived
C26_Witness ==
  /\ isEditing
  /\ selectedCell = Some([row |-> 1, column |-> 1])
  /\ editingValue = <<"h", "i">>
  /\ selection # None
  /\ clipboard # <<>>
  /\ Len(callbacks[LocalUser]) > 0
  /\ 2 \in DOMAIN collaborators
  /\ collaborators[2].row = 2
  /\ connectionStatus = "connected"

\* C27: remote cell updates to different cells commute: for any two inbound
\* updates awaiting a client that target distinct (row, column) pairs,
\* handling them in either order yields the same store.
C27_DistinctCellsCommute ==
  \A c \in Clients :
    \A i, j \in 1..Len(inbox[c]) :
      LET e1 == inbox[c][i]
          e2 == inbox[c][j]
      IN  <<e1.row, e1.column>> # <<e2.row, e2.column>> =>
            applyUpdates(store[c], handleCellUpdate(c, e1) \o handleCellUpdate(c, e2))
              = applyUpdates(store[c], handleCellUpdate(c, e2) \o handleCellUpdate(c, e1))

\* Client 1 has handled two remote updates to two different cells carrying
\* different values, and its store holds both
C27_Witness ==
  /\ Len(callbacks[1]) = 2
  /\ <<callbacks[1][1].row, callbacks[1][1].column>>
       # <<callbacks[1][2].row, callbacks[1][2].column>>
  /\ callbacks[1][1].value # callbacks[1][2].value
  /\ store[1][<<callbacks[1][1].row, callbacks[1][1].column>>] = callbacks[1][1].value
  /\ store[1][<<callbacks[1][2].row, callbacks[1][2].column>>] = callbacks[1][2].value

----------------------------------------------------------------------------
\* Properties of the connection state and of the presence colors

\* C28: the connection state, which PresenceInit starts as connecting, only
\* follows the transitions connecting -> connected, connected ->
\* disconnected, disconnected -> connected and disconnected -> connecting;
\* after every connection-status event the state equals the reported status
\* and the connected flag is true exactly when the state is connected.
C28_ConnectionStateMachine ==
  [][/\ connectionStatus' # connectionStatus =>
          <<connectionStatus, connectionStatus'>> \in
            { <<"connecting", "connected">>, <<"connected", "disconnected">>,
              <<"disconnected", "connected">>, <<"disconnected", "connecting">> }
     /\ \A status \in Statuses :
          InboundConnectionStatus(status) =>
            /\ connectionStatus' = status
            /\ isConnected' = (status = "connected")]_vars

\* C29: a collaborator-join event for user u inserts or updates the entry of
\* u with the color CURSOR_COLORS[u.id mod 10] (the table is indexed from 0
\* in the source), and the entries of all other users are unchanged.
C29_JoinAssignsColor ==
  [][\A u \in PresenceUsers :
       InboundJoin(u) =>
         /\ DOMAIN collaborators' = (DOMAIN collaborators) \cup {u}
         /\ collaborators'[u].userId = u
         /\ collaborators'[u].color = CURSOR_COLORS[(u % 10) + 1]
         /\ \A w \in (DOMAIN collaborators) \ {u} :
              collaborators'[w] = collaborators[w]]_vars

\* Users 2 and 12 have both joined and hold the same color, the third of the
\* table, and the entry of user 2 kept the cursor position it had been given
C29_Witness ==
  /\ {2, 12} \subseteq DOMAIN collaborators
  /\ collaborators[2].color = CURSOR_COLORS[3]
  /\ collaborators[12].color = CURSOR_COLORS[3]
  /\ collaborators[2].row = 2
  /\ collaborators[12].row = 1

----------------------------------------------------------------------------
\* Properties of the request body

\* C30: every cell write issued to persistence has formula # null if and
\* only if dataType = formula: the formula field is the raw value when the
\* value starts with '=' and null otherwise.
C30_FormulaIffDataType ==
  \A k \in 1..Len(inflight) :
    /\ (inflight[k].formula # Null) <=> (inflight[k].dataType = "formula")
    /\ inflight[k].formula =
         (IF startsWithEq(inflight[k].value) THEN inflight[k].value ELSE Null)

\* A write of a formula and a write of a value that is not a formula are in
\* flight together
C30_Witness ==
  /\ Len(inflight) = 2
  /\ \E k \in 1..2 :
       /\ inflight[k].dataType = "formula"
       /\ inflight[k].formula = <<"=", "A", "1">>
  /\ \E k \in 1..2 :
       /\ inflight[k].dataType \in {"number", "text"}
       /\ inflight[k].formula = Null

----------------------------------------------------------------------------
\* Properties of the active cell and of the selection

\* C31: the active cell stays inside the grid in every reachable state:
\* after any sequence of key events of either mode and of pointer events on
\* cells, 1 <= row <= ROWS and 1 <= column <= COLS.
C31_ActiveCellInBounds ==
  selectedCell # None => InBounds(Row, Column)

\* Two writes to the last cell of the grid were issued by keys and the
\* active cell is still the last cell
C31_Witness ==
  /\ selectedCell = Some([row |-> ROWS, column |-> COLS])
  /\ ~isEditing
  /\ Len(inflight) = 2
  /\ \A k \in 1..2 : inflight[k].row = ROWS /\ inflight[k].column = COLS

----------------------------------------------------------------------------
\* Further properties of the message effect and of presence

\* C32: at any time at most one set of handlers (one handler per inbound
\* event type) is registered on the socket: a re-subscription removes the
\* previous handlers before it adds the new ones, and after the teardown no
\* handler is registered.
C32_OneHandlerSet ==
  /\ listeners \in {0, 1}
  /\ (socketPresent /\ user # None) => listeners = 1
  /\ ~(socketPresent /\ user # None) => listeners = 0

\* The effect has run a second time, its handlers are registered once, and
\* an inbound cell update of a remote user has been handled once
C32_Witness ==
  /\ joinEmitted = 2
  /\ socketPresent
  /\ user # None
  /\ listeners = 1
  /\ handled[LocalUser] = 1
  /\ Len(callbacks[LocalUser]) = 1

\* C33: an inbound cursor-move for a userId that has no Presence entry
\* creates no entry and leaves the Presence map unchanged; an entry is
\* created only by a collaborator-join event.
C33_CursorMoveCreatesNoEntry ==
  [][/\ \A u \in PresenceUsers, pos \in CursorPositions, editing \in BOOLEAN :
          InboundCursorMove(u, pos[1], pos[2], editing) =>
            /\ DOMAIN collaborators' = DOMAIN collaborators
            /\ u \notin DOMAIN collaborators => collaborators' = collaborators
     /\ (DOMAIN collaborators' \ DOMAIN collaborators) # {} =>
          \E u \in PresenceUsers : InboundJoin(u)]_vars

\* Cursor-move events are being handled (the entry of user 2 has moved)
\* while user 12 has no entry
C33_Witness ==
  /\ listeners > 0
  /\ 12 \notin DOMAIN collaborators
  /\ 2 \in DOMAIN collaborators
  /\ collaborators[2].row = 2
  /\ collaborators[2].isEditing

\* C34: a collaborator-join event for a userId that already has a Presence
\* entry resets the entry's cursor to row 1, column 1 and isEditing = false,
\* whatever position earlier cursor-move events had given it.
C34_JoinResetsCursor ==
  [][\A u \in PresenceUsers :
       (u \in DOMAIN collaborators /\ InboundJoin(u)) =>
         /\ collaborators'[u].row = 1
         /\ collaborators'[u].column = 1
         /\ collaborators'[u].isEditing = FALSE]_vars

\* Users 2 and 12 both have an entry; cursor-moves have put user 12 at
\* (2, 3), editing, and the entry of user 2 is at row 1, column 1
C34_Witness ==
  /\ {2, 12} \subseteq DOMAIN collaborators
  /\ collaborators[12].row = 2
  /\ collaborators[12].column = 3
  /\ collaborators[12].isEditing
  /\ collaborators[2].row = 1
  /\ collaborators[2].column = 1
  /\ ~collaborators[2].isEditing

====
